---- MODULE Spec2Model ----
(***************************************************************************)
(* EasyDocs: the gallery image resolution and export pipeline.             *)
(*   src/app/lib/hitomi.ts                 server map, bucket, image URL   *)
(*   src/app/components/hitomi-viewer.tsx  export handlers of HitomiViewer *)
(* Specifications:                                                         *)
(*   Spec       the download orchestrator (handleDownloadImages and        *)
(*              handleSavePdf of one mounted HitomiViewer)                 *)
(*   SpecMap    getHitomiServerMap under concurrent callers                *)
(*   SpecParse  parseServerMap over routing-script payloads                *)
(*   SpecHash   resolveHashNumber over hashes                              *)
(***************************************************************************)
EXTENDS Integers, Sequences, FiniteSets, TLC

\* ------------------------------------------------------------- bounds
\* Number of images of the gallery shown by the viewer.
MaxImages == 2
\* Requests rejected by the orchestrator that the model keeps counting.
MaxRejects == 1

\* Concurrent calls of getHitomiServerMap, and fetches of the routing script.
MaxCallers == 4
MaxFetches == 3
\* Statements (case labels and if-overrides) of one routing script, and the
\* largest bucket they name.
MaxStatements == 4
MaxKey == 3
\* Characters of one hash.
MaxHashLen == 4
\* Image sides and pixel budgets, and dimension limits, handed to resolveTilePlan.
MaxSide == 6
MaxLimit == 4
\* Pages of the gallery whose file names are compared.
MaxPages == 12
\* Candidate sources of one image.
MaxSources == 4
\* Runs of the viewer's load effect, and the gallery ids it is given.
MaxLoads == 3
MaxGalleryId == 2
\* Calls of openDb in the local-file store.
MaxDbCalls == 4

\* ------------------------------------------------- numeric helpers
Max(a, b) == IF a >= b THEN a ELSE b

Min(a, b) == IF a <= b THEN a ELSE b

\* Math.ceil(a / b) for a >= 0, b > 0
CeilDiv(a, b) == (a + b - 1) \div b

RECURSIVE Gcd(_, _)
Gcd(a, b) == IF b = 0 THEN a ELSE Gcd(b, a % b)

\* ------------------------------------------------- export formats
Formats == {"png", "jpg", "webp", "avif"}

IMAGE_EXPORT_CONFIG ==
  [ png  |-> [mime |-> "image/png",  extension |-> "png",
              maxDimension |-> 16384, maxPixels |-> 268435456],
    jpg  |-> [mime |-> "image/jpeg", extension |-> "jpg",
              maxDimension |-> 16384, maxPixels |-> 268435456],
    webp |-> [mime |-> "image/webp", extension |-> "webp",
              maxDimension |-> 16383, maxPixels |-> 268435456],
    avif |-> [mime |-> "image/avif", extension |-> "avif",
              maxDimension |-> 16384, maxPixels |-> 268435456] ]

\* The requested configuration is kept whatever the probe returns.
resolveFormatConfig_requested(format, supported) == IMAGE_EXPORT_CONFIG[format]

\* resolveFormatConfig: the 1x1 probe encode returned a blob (supported) or null.
resolveFormatConfig(format, supported) ==
  IF supported THEN IMAGE_EXPORT_CONFIG[format] ELSE IMAGE_EXPORT_CONFIG["png"]

\* ------------------------------------------------- tile planner
\* The image is not cut before the refinement loop.
initialCount_one(side, maxDimension) == 1

\* Math.max(1, Math.ceil(side / maxDimension))
initialCount(side, maxDimension) == Max(1, CeilDiv(side, maxDimension))

\* The tile size is rounded down.
planOf_floor(cols, rows, width, height) ==
  [cols |-> cols, rows |-> rows,
   tileWidth |-> width \div cols, tileHeight |-> height \div rows]

\* cols and rows with the tile size they give
planOf(cols, rows, width, height) ==
  [cols |-> cols, rows |-> rows,
   tileWidth |-> CeilDiv(width, cols), tileHeight |-> CeilDiv(height, rows)]

\* while (tileWidth * tileHeight > maxPixels)
overLimit(plan, maxPixels) == plan.tileWidth * plan.tileHeight > maxPixels

\* A square tile gets another row.
addsColumn_strict(plan) == plan.tileWidth > plan.tileHeight

\* if (tileWidth >= tileHeight) cols += 1; else rows += 1;
addsColumn(plan) == plan.tileWidth >= plan.tileHeight

refinePlan(plan, width, height) ==
  IF addsColumn(plan) THEN planOf(plan.cols + 1, plan.rows, width, height)
  ELSE planOf(plan.cols, plan.rows + 1, width, height)

RECURSIVE tilePlanLoop(_, _, _, _, _)
tilePlanLoop(cols, rows, width, height, maxPixels) ==
  LET plan == planOf(cols, rows, width, height)
  IN  IF overLimit(plan, maxPixels)
      THEN LET next == refinePlan(plan, width, height)
           IN  tilePlanLoop(next.cols, next.rows, width, height, maxPixels)
      ELSE plan

resolveTilePlan(width, height, limits) ==
  tilePlanLoop(initialCount(width, limits.maxDimension),
               initialCount(height, limits.maxDimension),
               width, height, limits.maxPixels)

\* The plan the per-image loop uses: split only on request and only when needed.
needsSplit(split, width, height, limits) ==
  /\ split
  /\ \/ width > limits.maxDimension
     \/ height > limits.maxDimension
     \/ width * height > limits.maxPixels

imagePlan(split, width, height, limits) ==
  IF needsSplit(split, width, height, limits)
  THEN resolveTilePlan(width, height, limits)
  ELSE [cols |-> 1, rows |-> 1, tileWidth |-> width, tileHeight |-> height]

\* The crop rectangle of tile (row, col) in the export loop:
\* sw = Math.min(plan.tileWidth, width - col * plan.tileWidth), sh likewise,
\* taken from the source at (col * plan.tileWidth, row * plan.tileHeight).
tileCrop(plan, width, height, row, col) ==
  [ sx |-> col * plan.tileWidth,
    sy |-> row * plan.tileHeight,
    sw |-> Min(plan.tileWidth, width - col * plan.tileWidth),
    sh |-> Min(plan.tileHeight, height - row * plan.tileHeight) ]

\* ------------------------------------------------- retrieval
FetchOutcomes == {"ok", "notok", "throw"}

\* fetchImageBlob: the position of the first candidate whose response is ok,
\* 0 when every candidate failed (the function returns null).
RECURSIVE fetchFrom(_, _)
fetchFrom(outcomes, i) ==
  IF i > Len(outcomes) THEN 0
  ELSE IF outcomes[i] = "ok" THEN i
  ELSE fetchFrom(outcomes, i + 1)

fetchImageBlob(outcomes) == fetchFrom(outcomes, 1)

\* ------------------------------------------------- file names
DigitChars == <<"0", "1", "2", "3", "4", "5", "6", "7", "8", "9">>

\* String(value) as a sequence of digit characters
RECURSIVE toDigits(_)
toDigits(value) ==
  IF value < 10 THEN <<DigitChars[value + 1]>>
  ELSE Append(toDigits(value \div 10), DigitChars[(value % 10) + 1])

RECURSIVE padStart(_, _)
padStart(str, targetLength) ==
  IF Len(str) >= targetLength THEN str
  ELSE padStart(<<"0">> \o str, targetLength)

\* The index is written without padding.
padIndex_unpadded(value, total) == toDigits(value)

\* indexWidth = String(images.length).length ; padIndex(value)
padIndex(value, total) == padStart(toDigits(value), Len(toDigits(total)))

\* `${baseLabel}-${padIndex(index + 1)}${suffix}.${extension}`
pageFileName(page, total, plan, row, col, extension) ==
  [ stem |-> padIndex(page, total),
    part |-> IF plan.cols > 1 \/ plan.rows > 1 THEN <<row + 1, col + 1>> ELSE <<>>,
    ext  |-> extension ]

\* `${baseLabel}-${suffix}.${extension}` of a combine chunk
chunkFileName(totalChunks, chunkIndex, extension) ==
  [ stem |-> <<"combined">>,
    part |-> IF totalChunks > 1 THEN <<chunkIndex + 1>> ELSE <<>>,
    ext  |-> extension ]

\* `${baseLabel}${labelSuffix}-${extension}.zip`
zipFileName(suffix, extension) ==
  [ stem |-> <<"zip", suffix>>, part |-> <<>>, ext |-> extension ]

\* ------------------------------------------------- galleries
\* The entries of the `images` memo: natural pixel size of the remote image,
\* whether the metadata declares it, and the number of candidate sources.
ImageKinds ==
  { [width |-> 8192,  height |-> 10000, declared |-> TRUE,  nsrc |-> 2],
    [width |-> 8192,  height |-> 10000, declared |-> FALSE, nsrc |-> 1],
    [width |-> 24576, height |-> 20000, declared |-> TRUE,  nsrc |-> 1] }

Galleries == UNION { [1..n -> ImageKinds] : n \in 0..MaxImages }

\* Galleries for the combine export alone: pages three times as wide as the
\* largest canvas side (one a row short of as high, one of two rows), a page
\* that has to be measured, and a page of a single row.
TallKinds ==
  { [width |-> 49152, height |-> 49151, declared |-> TRUE,  nsrc |-> 1],
    [width |-> 8192,  height |-> 10000, declared |-> FALSE, nsrc |-> 1],
    [width |-> 49152, height |-> 2,     declared |-> TRUE,  nsrc |-> 1],
    [width |-> 8192,  height |-> 1,     declared |-> TRUE,  nsrc |-> 1] }

TallGalleries == UNION { [1..n -> TallKinds] : n \in 0..MaxImages }

\* ------------------------------------------------- notifications
loadingToast(n) == [type |-> "loading", text |-> "preparing", count |-> n]

successToast(n) == [type |-> "success", text |-> "downloaded", count |-> n]

failedToast == [type |-> "error", text |-> "download failed", count |-> 0]

inProgressToast == [type |-> "info", text |-> "already in progress", count |-> 0]

noImagesToast == [type |-> "error", text |-> "no images", count |-> 0]

printToast == [type |-> "info", text |-> "opening print dialog", count |-> 0]

\* ------------------------------------------------- state
VARIABLES
  images,         \* the `images` memo of the viewer (empty until the gallery loads)
  loaded,         \* the gallery load effect has delivered its result
  lock,           \* downloadLockRef.current
  isDownloading,  \* the isDownloading state
  active,         \* export handler invocations past their guards and not finished
  pc,             \* where the running handler is suspended ("idle": none runs)
  run,            \* the running handler's locals
  toasts,         \* notifications of the current (or last) accepted request
  loadingShown,   \* the persistent loading toast is on screen
  saved,          \* triggerDownload calls of the current (or last) accepted request
  notices,        \* notifications of rejected requests
  exit            \* how the last handler invocation ended

exportVars ==
  <<images, loaded, lock, isDownloading, active, pc, run, toasts, loadingShown,
    saved, notices, exit>>

VARIABLES
  serverMapPromise,  \* the module-level cache: 0 (null) or a promise id
  promises,          \* promises[id]: the promise chain built at hitomi.ts 109-112
  callers,           \* the calls of getHitomiServerMap, in call order
  microtasks,        \* the microtask queue: resumptions and caller code, FIFO
  payload,           \* routing script handed to parseServerMap
  parsed,            \* whether parseServerMap was called, and its result
  hash,              \* hash handed to resolveHashNumber
  hashNumber         \* whether resolveHashNumber was called, and its result

mapVars == <<serverMapPromise, promises, callers, microtasks>>

parseVars == <<payload, parsed>>

hashVars == <<hash, hashNumber>>

VARIABLES
  args,              \* arguments of the function called on its own
  result             \* whether it was called, and what it returned

callVars == <<args, result>>

\* the state of hitomi.ts, untouched by the viewer's export handlers
resolverVars == <<mapVars, parseVars, hashVars, callVars>>

vars == <<exportVars, resolverVars>>

newRun(kind, format, packaging, split, combine) ==
  [ kind |-> kind, format |-> format, packaging |-> packaging,
    split |-> split, combine |-> combine,
    formatConfig |-> IMAGE_EXPORT_CONFIG["png"],
    probes |-> 0, probed |-> "none",   \* calls of resolveFormatConfig, its test encode
    index |-> 0, row |-> 0, col |-> 0,
    fetched |-> [i \in 1..Len(images) |-> "none"],
    entries |-> {}, preload |-> {}, live |-> {},
    tiles |-> {}, slices |-> <<>>, chunks |-> {},
    lostTiles |-> {}, lostChunks |-> {},   \* units whose encode returned null
    dimensions |-> <<>>,
    scaleNum |-> 1, scaleDen |-> 1, scaledWidth |-> 0,
    chunkHeight |-> 0, totalHeight |-> 0, totalChunks |-> 0,
    chunkIndex |-> 0, chunkYStart |-> 0, canvas |-> 0, flushed |-> 0,
    yCursor |-> 0, remainingHeight |-> 0, sourceOffsetY |-> 0 ]

InitExport ==
  /\ images = <<>>
  /\ loaded = FALSE
  /\ lock = FALSE
  /\ isDownloading = FALSE
  /\ active = 0
  /\ pc = "idle"
  /\ run = newRun("none", "png", "zip", FALSE, FALSE)
  /\ toasts = <<>>
  /\ loadingShown = FALSE
  /\ saved = <<>>
  /\ notices = <<>>
  /\ exit = "none"

\* The load effect delivers the gallery; `images` is recomputed from it.
loadFrom(galleries) ==
  /\ ~loaded
  /\ \E g \in galleries : images' = g
  /\ loaded' = TRUE
  /\ UNCHANGED <<resolverVars, lock, isDownloading, active, pc, run, toasts, loadingShown,
                 saved, notices, exit>>

loadGallery == loadFrom(Galleries)

\* ------------------------------------------------- handler entry and exit
\* The lock is never consulted.
downloadLocked_unchecked == FALSE

\* if (downloadLockRef.current)
downloadLocked == lock

\* A request that returns at a guard: it only shows a notification.
reject(notice) ==
  /\ Len(notices) < MaxRejects
  /\ notices' = Append(notices, notice)
  /\ UNCHANGED <<resolverVars, images, loaded, lock, isDownloading, active, pc, run, toasts,
                 loadingShown, saved, exit>>

\* finally { downloadLockRef.current = false; setIsDownloading(false); }
releaseLock ==
  /\ lock' = FALSE
  /\ isDownloading' = FALSE

\* The handler's promise settles: `how` is "completed", "returned" (a return
\* inside the try block), "caught" (the catch block ran) or "uncaught".
finish(how) ==
  /\ releaseLock
  /\ active' = active - 1
  /\ pc' = "idle"
  /\ exit' = how

\* catch (error) { dismissToast(toastId); toast.error("Download failed..."); }
catchError ==
  /\ toasts' = Append(toasts, failedToast)
  /\ loadingShown' = FALSE
  /\ finish("caught")

\* dismissToast(toastId); toast.success(`Successfully downloaded ${images.length} images!`)
reportSuccess ==
  /\ toasts' = Append(toasts, successToast(Len(images)))
  /\ loadingShown' = FALSE
  /\ finish("completed")

\* A return that leaves the handler without running its finally block.
returnFromCombine_noFinally ==
  /\ UNCHANGED <<toasts, loadingShown, lock, isDownloading>>
  /\ active' = active - 1
  /\ pc' = "idle"
  /\ exit' = "returned"

\* `return` inside the combine branch: only the finally blocks run.
returnFromCombine ==
  /\ UNCHANGED <<toasts, loadingShown>>
  /\ finish("returned")

\* preload.forEach((loaded) => loaded.release?.()); preload.clear();
releasePreload(r) == [r EXCEPT !.live = @ \ r.preload, !.preload = {}]

handleDownloadImages(format, packaging, split, combine) ==
  IF Len(images) = 0 THEN reject(noImagesToast)
  ELSE IF downloadLocked THEN reject(inProgressToast)
  ELSE /\ lock' = TRUE
       /\ isDownloading' = TRUE
       /\ active' = active + 1
       /\ toasts' = <<loadingToast(Len(images))>>
       /\ loadingShown' = TRUE
       /\ run' = newRun("images", format, packaging, split, combine)
       /\ saved' = <<>>
       /\ exit' = "none"
       /\ pc' = "probe"
       /\ UNCHANGED <<resolverVars, images, loaded, notices>>

requestImages ==
  \E format \in Formats, packaging \in {"zip", "single"},
     split \in BOOLEAN, combine \in BOOLEAN :
    handleDownloadImages(format, packaging, split, combine)

\* const formatConfig = await resolveFormatConfig(format);
probeFormat ==
  /\ pc = "probe"
  /\ \E supported \in BOOLEAN :
       run' = [run EXCEPT !.formatConfig = resolveFormatConfig(run.format, supported),
                          !.probes = @ + 1,
                          !.probed = IF supported THEN "blob" ELSE "null",
                          !.index = 1]
  /\ pc' = IF run.combine THEN "dims" ELSE "fetch"
  /\ UNCHANGED <<resolverVars, images, loaded, lock, isDownloading, active, toasts,
                 loadingShown, saved, notices, exit>>

\* ------------------------------------------------- output packager
\* writeOutput: buffer the entry (zip) or save it at once (single)
entriesAfterWrite(r, fileName) ==
  IF r.packaging = "zip" THEN r.entries \cup {fileName} ELSE r.entries

savedAfterWrite(r, fileName) ==
  IF r.packaging = "zip" THEN saved ELSE Append(saved, fileName)

\* finalizeZip saves an archive: zip packaging and at least one entry
zipsArchive(r) == r.packaging = "zip" /\ r.entries # {}

\* ------------------------------------------------- per-image export loop
\* A failed retrieval ends the export with an error.
skipPage_abort ==
  /\ run' = [run EXCEPT !.fetched[run.index] = "null"]
  /\ catchError

\* if (!blob) continue;
skipPage ==
  /\ run' = [run EXCEPT !.fetched[run.index] = "null", !.index = @ + 1]
  /\ pc' = IF run.index + 1 > Len(images) THEN "finalize" ELSE "fetch"
  /\ UNCHANGED <<lock, isDownloading, active, toasts, loadingShown, exit>>

\* for (index ...) { const blob = await fetchImageBlob(entry.sources);
\*   if (!blob) continue; const loaded = await loadImageSource(blob); ...
fetchPage ==
  /\ pc = "fetch"
  /\ \E outcomes \in [1..images[run.index].nsrc -> FetchOutcomes],
        decoded \in BOOLEAN :
       IF fetchImageBlob(outcomes) = 0
       THEN skipPage
       ELSE IF ~decoded
       THEN /\ run' = [run EXCEPT !.fetched[run.index] = "blob"]
            /\ catchError
       ELSE /\ run' = [run EXCEPT !.fetched[run.index] = "blob",
                                  !.live = @ \cup {run.index},
                                  !.row = 0, !.col = 0]
            /\ pc' = "tiles"
            /\ UNCHANGED <<lock, isDownloading, active, toasts, loadingShown, exit>>
  /\ UNCHANGED <<resolverVars, images, loaded, saved, notices>>

\* One tile of the current image: crop, encode, write; after the last tile the
\* finally block releases the decoded image and the loop moves on.
encodeTile ==
  /\ pc = "tiles"
  /\ \E encoded \in BOOLEAN :
       LET img      == images[run.index]
           plan     == imagePlan(run.split, img.width, img.height, run.formatConfig)
           fileName == pageFileName(run.index, Len(images), plan, run.row, run.col,
                                    run.formatConfig.extension)
           lastCol  == run.col + 1 >= plan.cols
           lastTile == lastCol /\ run.row + 1 >= plan.rows
           written  == IF encoded
                       THEN [run EXCEPT !.entries = entriesAfterWrite(run, fileName),
                                        !.tiles = @ \cup {<<run.index, run.row, run.col>>}]
                       ELSE [run EXCEPT
                               !.lostTiles = @ \cup {<<run.index, run.row, run.col>>}]
       IN  /\ saved' = IF encoded THEN savedAfterWrite(run, fileName) ELSE saved
           /\ IF lastTile
              THEN /\ run' = [written EXCEPT !.live = @ \ {run.index},
                                             !.index = @ + 1, !.row = 0, !.col = 0]
                   /\ pc' = IF run.index + 1 > Len(images) THEN "finalize" ELSE "fetch"
              ELSE /\ run' = [written EXCEPT !.col = IF lastCol THEN 0 ELSE @ + 1,
                                             !.row = IF lastCol THEN @ + 1 ELSE @]
                   /\ pc' = "tiles"
  /\ UNCHANGED <<resolverVars, images, loaded, lock, isDownloading, active, toasts,
                 loadingShown, notices, exit>>

\* await finalizeZip(); dismissToast(toastId); toast.success(...)
finalizeExport ==
  /\ pc = "finalize"
  /\ \E imported \in BOOLEAN :
       IF zipsArchive(run) /\ ~imported
       THEN /\ catchError
            /\ UNCHANGED saved
       ELSE /\ saved' = IF zipsArchive(run)
                        THEN Append(saved, zipFileName("", run.formatConfig.extension))
                        ELSE saved
            /\ reportSuccess
  /\ UNCHANGED <<resolverVars, images, loaded, run, notices>>

\* ------------------------------------------------- composite stitcher
\* Lengths on the composite's Y axis (totalHeight, yCursor, remainingHeight) are
\* kept as numerators over run.scaleDen, where widthScale = scaleNum / scaleDen;
\* sourceOffsetY is kept as a numerator over run.scaleNum.

\* Math.round(a / b) for a >= 0, b > 0
RoundDiv(a, b) == (2 * a + b) \div (2 * b)

RECURSIVE maxWidth(_)
maxWidth(dimensions) ==
  IF dimensions = <<>> THEN 0
  ELSE Max(dimensions[1].width, maxWidth(Tail(dimensions)))

RECURSIVE sumHeights(_)
sumHeights(dimensions) ==
  IF dimensions = <<>> THEN 0
  ELSE dimensions[1].height + sumHeights(Tail(dimensions))

\* widthScale = safeWidth > maxDimension ? maxDimension / safeWidth : 1
widthScale(safeWidth, maxDimension) ==
  IF safeWidth > maxDimension
  THEN LET g == Gcd(maxDimension, safeWidth)
       IN  <<maxDimension \div g, safeWidth \div g>>
  ELSE <<1, 1>>

\* The sizes fixed after the dimension pass.
combineSizes(r) ==
  LET limits      == r.formatConfig
      safeWidth   == Max(1, maxWidth(r.dimensions))
      scale       == widthScale(safeWidth, limits.maxDimension)
      scaledWidth == Max(1, RoundDiv(safeWidth * scale[1], scale[2]))
      chunkHeight == Max(1, Min(limits.maxDimension, limits.maxPixels \div scaledWidth))
      totalHeight == sumHeights(r.dimensions) * scale[1]
  IN  [r EXCEPT !.scaleNum = scale[1], !.scaleDen = scale[2],
                !.scaledWidth = scaledWidth, !.chunkHeight = chunkHeight,
                !.totalHeight = totalHeight,
                !.totalChunks = Max(1, CeilDiv(totalHeight, chunkHeight * scale[2]))]

\* openChunk(index): the height of the canvas it creates
openChunk(r, index) ==
  LET remaining == Max(0, r.totalHeight - index * r.chunkHeight * r.scaleDen)
  IN  Max(1, CeilDiv(Min(r.chunkHeight * r.scaleDen, remaining), r.scaleDen))

\* A chunk that cannot be encoded discards the entries buffered so far.
chunkWritten_discard(r, encoded) ==
  LET fileName == chunkFileName(r.totalChunks, r.chunkIndex, r.formatConfig.extension)
  IN  IF encoded
      THEN [r EXCEPT !.entries = entriesAfterWrite(r, fileName), !.flushed = @ + 1,
                     !.chunks = @ \cup {r.chunkIndex}]
      ELSE [r EXCEPT !.flushed = @ + 1, !.entries = {},
                     !.lostChunks = @ \cup {r.chunkIndex}]

\* flushChunk: encode the current canvas and write it under its chunk name
chunkWritten(r, encoded) ==
  LET fileName == chunkFileName(r.totalChunks, r.chunkIndex, r.formatConfig.extension)
  IN  IF encoded
      THEN [r EXCEPT !.entries = entriesAfterWrite(r, fileName), !.flushed = @ + 1,
                     !.chunks = @ \cup {r.chunkIndex}]
      ELSE [r EXCEPT !.flushed = @ + 1, !.lostChunks = @ \cup {r.chunkIndex}]

savedAfterFlush(r, encoded) ==
  IF encoded
  THEN savedAfterWrite(r, chunkFileName(r.totalChunks, r.chunkIndex,
                                        r.formatConfig.extension))
  ELSE saved

\* Dimension pass: declared dimensions, or fetch and decode once (kept in preload).
measureImage ==
  /\ pc = "dims"
  /\ LET entry  == images[run.index]
         nextPc == IF run.index + 1 > Len(images) THEN "setup" ELSE "dims"
         push(r, w, h) == [r EXCEPT !.dimensions = Append(@, [width |-> w, height |-> h]),
                                    !.index = @ + 1]
     IN  IF entry.declared
         THEN /\ run' = push(run, entry.width, entry.height)
              /\ pc' = nextPc
              /\ UNCHANGED <<lock, isDownloading, active, toasts, loadingShown, exit>>
         ELSE \E outcomes \in [1..entry.nsrc -> FetchOutcomes], decoded \in BOOLEAN :
                IF fetchImageBlob(outcomes) = 0
                THEN /\ run' = push([run EXCEPT !.fetched[run.index] = "null"], 0, 0)
                     /\ pc' = nextPc
                     /\ UNCHANGED <<lock, isDownloading, active, toasts,
                                    loadingShown, exit>>
                ELSE IF ~decoded
                THEN /\ run' = releasePreload([run EXCEPT !.fetched[run.index] = "blob"])
                     /\ catchError
                ELSE /\ run' = push([run EXCEPT !.fetched[run.index] = "blob",
                                                !.preload = @ \cup {run.index},
                                                !.live = @ \cup {run.index}],
                                    entry.width, entry.height)
                     /\ pc' = nextPc
                     /\ UNCHANGED <<lock, isDownloading, active, toasts,
                                    loadingShown, exit>>
  /\ UNCHANGED <<resolverVars, images, loaded, saved, notices>>

\* Sizes, the zero-height return, and the first openChunk.
openFirstChunk ==
  /\ pc = "setup"
  /\ LET sized == combineSizes(run)
     IN  IF sized.totalHeight <= 0
         THEN /\ run' = releasePreload(sized)
              /\ returnFromCombine
         ELSE \E context \in BOOLEAN :
                IF ~context
                THEN /\ run' = releasePreload(sized)
                     /\ returnFromCombine
                ELSE /\ run' = [sized EXCEPT !.chunkIndex = 0, !.chunkYStart = 0,
                                             !.canvas = openChunk(sized, 0),
                                             !.yCursor = 0, !.index = 1]
                     /\ pc' = "draw"
                     /\ UNCHANGED <<lock, isDownloading, active, toasts,
                                    loadingShown, exit>>
  /\ UNCHANGED <<resolverVars, images, loaded, saved, notices>>

\* Draw loop, one image: skip it, or get its decoded source and start slicing.
drawImage ==
  /\ pc = "draw"
  /\ LET dims   == run.dimensions[run.index]
         nextPc == IF run.index + 1 > Len(images) THEN "flush" ELSE "draw"
         start(r) == [r EXCEPT !.remainingHeight = dims.height * r.scaleNum,
                               !.sourceOffsetY = 0]
     IN  IF dims.width = 0 \/ dims.height = 0
         THEN /\ run' = [run EXCEPT !.index = @ + 1]
              /\ pc' = nextPc
              /\ UNCHANGED <<lock, isDownloading, active, toasts, loadingShown, exit>>
         ELSE IF run.index \in run.preload
         THEN /\ run' = start(run)
              /\ pc' = "slice"
              /\ UNCHANGED <<lock, isDownloading, active, toasts, loadingShown, exit>>
         ELSE \E outcomes \in [1..images[run.index].nsrc -> FetchOutcomes],
                 decoded \in BOOLEAN :
                IF fetchImageBlob(outcomes) = 0
                THEN /\ run' = [run EXCEPT !.fetched[run.index] = "null", !.index = @ + 1]
                     /\ pc' = nextPc
                     /\ UNCHANGED <<lock, isDownloading, active, toasts,
                                    loadingShown, exit>>
                ELSE IF ~decoded
                THEN /\ run' = releasePreload([run EXCEPT !.fetched[run.index] = "blob"])
                     /\ catchError
                ELSE /\ run' = start([run EXCEPT !.fetched[run.index] = "blob",
                                                 !.live = @ \cup {run.index}])
                     /\ pc' = "slice"
                     /\ UNCHANGED <<lock, isDownloading, active, toasts,
                                    loadingShown, exit>>
  /\ UNCHANGED <<resolverVars, images, loaded, saved, notices>>

\* One iteration of `while (remainingHeight > 0)`: roll over to a new chunk when
\* the cursor has reached the bottom of the current one, then draw one slice.
drawSlice ==
  /\ pc = "slice"
  /\ \E encoded \in BOOLEAN, context \in BOOLEAN :
       LET den         == run.scaleDen
           chunkBottom == run.chunkYStart + run.canvas
           rollover    == 2 * run.yCursor + den >= 2 * chunkBottom * den
           flushedRun  == IF rollover THEN chunkWritten(run, encoded) ELSE run
           opened      == IF rollover
                          THEN [flushedRun EXCEPT
                                  !.chunkIndex = @ + 1,
                                  !.chunkYStart = (run.chunkIndex + 1) * run.chunkHeight,
                                  !.canvas = openChunk(run, run.chunkIndex + 1)]
                          ELSE run
           available   == chunkBottom * den - run.yCursor
           sliceHeight == Min(run.remainingHeight, available)
           \* ctx.drawImage(source, 0, sourceOffsetY, width, sourceSliceHeight,
           \*               xOffset, yCursor - chunkYStart, drawWidth, sliceHeight)
           slice       == [image |-> run.index, chunk |-> opened.chunkIndex,
                           sourceY |-> run.sourceOffsetY,
                           destY |-> run.yCursor - opened.chunkYStart * den,
                           height |-> sliceHeight]
           drawn       == [opened EXCEPT !.remainingHeight = @ - sliceHeight,
                                         !.sourceOffsetY = @ + sliceHeight,
                                         !.yCursor = @ + sliceHeight,
                                         !.slices = Append(@, slice)]
       IN  /\ saved' = IF rollover THEN savedAfterFlush(run, encoded) ELSE saved
           /\ IF rollover /\ ~context
              THEN /\ run' = releasePreload([flushedRun EXCEPT !.chunkIndex = @ + 1,
                                                               !.canvas = 0])
                   /\ returnFromCombine
              ELSE IF drawn.remainingHeight <= 0
              THEN /\ run' = [drawn EXCEPT
                                !.live = IF run.index \in run.preload
                                         THEN @ \ {run.index} ELSE @,
                                !.preload = @ \ {run.index},
                                !.index = @ + 1]
                   /\ pc' = IF run.index + 1 > Len(images) THEN "flush" ELSE "draw"
                   /\ UNCHANGED <<lock, isDownloading, active, toasts, loadingShown, exit>>
              ELSE /\ run' = drawn
                   /\ pc' = "slice"
                   /\ UNCHANGED <<lock, isDownloading, active, toasts, loadingShown, exit>>
  /\ UNCHANGED <<resolverVars, images, loaded, notices>>

\* await flushChunk(); await finalizeZip("combined"); return;
flushLast ==
  /\ pc = "flush"
  /\ \E encoded \in BOOLEAN, imported \in BOOLEAN :
       LET flushedRun == chunkWritten(run, encoded)
           afterFlush == savedAfterFlush(run, encoded)
       IN  /\ run' = releasePreload(flushedRun)
           /\ IF zipsArchive(flushedRun) /\ ~imported
              THEN /\ saved' = afterFlush
                   /\ catchError
              ELSE /\ saved' = IF zipsArchive(flushedRun)
                               THEN Append(afterFlush,
                                           zipFileName("combined",
                                                       run.formatConfig.extension))
                               ELSE afterFlush
                   /\ returnFromCombine
  /\ UNCHANGED <<resolverVars, images, loaded, notices>>

\* ------------------------------------------------- print / PDF export
noPrintToast == [type |-> "error", text |-> "no images to print", count |-> 0]

\* Up to `await waitForDocumentImages(...)`; a blocked popup returns at once.
handleSavePdf ==
  IF Len(images) = 0 THEN reject(noPrintToast)
  ELSE IF downloadLocked THEN reject(inProgressToast)
  ELSE /\ toasts' = <<printToast>>
       /\ run' = newRun("pdf", "png", "single", FALSE, FALSE)
       /\ saved' = <<>>
       /\ \E printWindow \in BOOLEAN :
            IF printWindow
            THEN /\ lock' = TRUE
                 /\ isDownloading' = TRUE
                 /\ active' = active + 1
                 /\ pc' = "pdf"
                 /\ exit' = "none"
            ELSE /\ releaseLock
                 /\ active' = active
                 /\ pc' = pc
                 /\ exit' = "returned"
       /\ UNCHANGED <<resolverVars, images, loaded, loadingShown, notices>>

\* The print window's images have settled: focus(), print(), finally.
printDocument ==
  /\ pc = "pdf"
  /\ \E printed \in BOOLEAN : finish(IF printed THEN "completed" ELSE "uncaught")
  /\ UNCHANGED <<resolverVars, images, loaded, run, toasts, loadingShown, saved, notices>>

\* ------------------------------------------------- the orchestrator
ExportStep ==
  \/ loadGallery
  \/ requestImages
  \/ handleSavePdf
  \/ probeFormat
  \/ fetchPage
  \/ encodeTile
  \/ finalizeExport
  \/ measureImage
  \/ openFirstChunk
  \/ drawImage
  \/ drawSlice
  \/ flushLast
  \/ printDocument

InitResolver ==
  /\ serverMapPromise = 0
  /\ promises = <<>>
  /\ callers = <<>>
  /\ microtasks = <<>>
  /\ payload = [statements |-> <<>>, defaults |-> <<>>, bases |-> <<>>]
  /\ parsed = [called |-> FALSE]
  /\ hash = <<>>
  /\ hashNumber = [called |-> FALSE]
  /\ args = <<>>
  /\ result = [called |-> FALSE]

Init == InitExport /\ InitResolver

Next == ExportStep

Spec == Init /\ [][Next]_vars

\* ------------------------------------------------- properties of the orchestrator
Range(seq) == { seq[i] : i \in 1..Len(seq) }

\* An images export has run to its end.
ImagesExportEnded == run.kind = "images" /\ pc = "idle" /\ exit # "none"

C2_LockReleased ==
  (pc = "idle") => (~lock /\ ~isDownloading /\ active = 0)

C2_Witness ==
  /\ ImagesExportEnded
  /\ run.combine
  /\ exit = "returned"
  /\ run.totalHeight = 0
  /\ ~lock

\* C3: an images export that has ended emitted the loading notification first
\* and then exactly one success or error notification.
C3_OneOutcome ==
  ImagesExportEnded =>
    /\ Len(toasts) >= 1
    /\ toasts[1].type = "loading"
    /\ Cardinality({ i \in 1..Len(toasts) : toasts[i].type \in {"success", "error"} }) = 1

\* C4: an images export in which the retrieval of every image failed ends with
\* an error notification, no success notification and no archive.
C4_AllFailedIsError ==
  (ImagesExportEnded /\ \A i \in 1..Len(images) : run.fetched[i] = "null") =>
    /\ \E i \in 1..Len(toasts) : toasts[i].type = "error"
    /\ \A i \in 1..Len(toasts) : toasts[i].type # "success"
    /\ \A i \in 1..Len(saved) : saved[i].stem[1] # "zip"

\* C6: the count of the success notification is the number of images exported.
C6_SuccessCount ==
  \A i \in 1..Len(toasts) :
    toasts[i].type = "success" =>
      toasts[i].count = Cardinality({ k \in 1..Len(images) : run.fetched[k] = "blob" })

\* C5: a failed retrieval only skips its image. The step in which every
\* candidate of one image has failed moves the loop to the next image, with no
\* notification, no exit and the outputs written so far untouched; and an export
\* that ran to its end attempted every image and holds the output of every
\* retrieved one (each encoded tile written or saved and the archive saved; in
\* combine mode, the image drawn at full height into chunks that were flushed).
RetrievalFails ==
  \E i \in DOMAIN run.fetched :
    run.fetched[i] = "none" /\ run'.fetched[i] = "null"

BatchContinues ==
  /\ pc' \in {"fetch", "finalize", "dims", "setup", "draw", "flush"}
  /\ run'.index = run.index + 1
  /\ run'.entries = run.entries /\ run'.tiles = run.tiles
  /\ run'.slices = run.slices /\ run'.chunks = run.chunks
  /\ UNCHANGED <<lock, exit, toasts, saved>>

RECURSIVE sliceHeights(_, _)
sliceHeights(slices, image) ==
  IF slices = <<>> THEN 0
  ELSE (IF slices[1].image = image THEN slices[1].height ELSE 0)
       + sliceHeights(Tail(slices), image)

Stored(fileName) ==
  IF run.packaging = "zip" THEN fileName \in run.entries
  ELSE fileName \in Range(saved)

PagesExported ==
  (ImagesExportEnded /\ ~run.combine /\ exit = "completed") =>
    /\ \A i \in 1..Len(images) : run.fetched[i] # "none"
    /\ \A t \in run.tiles :
         LET img  == images[t[1]]
             plan == imagePlan(run.split, img.width, img.height, run.formatConfig)
         IN  /\ run.fetched[t[1]] = "blob"
             /\ Stored(pageFileName(t[1], Len(images), plan, t[2], t[3],
                                    run.formatConfig.extension))
    /\ (run.packaging = "zip" /\ run.tiles # {}) =>
         zipFileName("", run.formatConfig.extension) \in Range(saved)

CombineFlushed ==
  /\ ImagesExportEnded
  /\ run.combine
  /\ exit = "returned"
  /\ run.index > Len(images)
  /\ run.canvas > 0

CompositeExported ==
  CombineFlushed =>
    /\ \A i \in 1..Len(images) : run.fetched[i] # "none"
    /\ \A i \in 1..Len(images) :
         run.fetched[i] = "blob" =>
           sliceHeights(run.slices, i) = images[i].height * run.scaleNum
    /\ \A k \in 1..Len(run.slices) : run.slices[k].chunk < run.flushed
    /\ \A c \in run.chunks :
         Stored(chunkFileName(run.totalChunks, c, run.formatConfig.extension))
    /\ (run.packaging = "zip" /\ run.chunks # {}) =>
         zipFileName("combined", run.formatConfig.extension) \in Range(saved)

C5_FailureIsolated ==
  /\ [](PagesExported /\ CompositeExported)
  /\ [][RetrievalFails => BatchContinues]_vars

C5_Witness ==
  /\ ImagesExportEnded
  /\ exit = "completed"
  /\ run.fetched = <<"null", "blob">>
  /\ run.tiles # {}
  /\ Len(saved) > 0

\* ------------------------------------------------- hitomi.ts: parseServerMap
\* A routing script is kept as the matches its text offers to the four regular
\* expressions of parseServerMap.  statements holds, in text order, the matches
\* of caseRegex ("case k:" with or without "o = v") and of ifRegex
\* ("if (g === k) o = v"); defaults and bases hold the matches of the default
\* and base-path expressions, of which exec() takes the first.
noValue == -1

Keys == 1..MaxKey

CaseValues == {5, 9}

OverrideValues == {9}

DefaultValues == {1}

BasePaths == { <<"/", "a", "/">> }

caseMatch(key, value) == [t |-> "case", key |-> key, value |-> value]

ifMatch(key, value) == [t |-> "if", key |-> key, value |-> value]

Statements ==
  { caseMatch(k, v) : k \in Keys, v \in CaseValues \cup {noValue} }
    \cup { ifMatch(k, v) : k \in Keys, v \in OverrideValues }

SeqUpTo(S, n) == UNION { [1..k -> S] : k \in 0..n }

Payloads ==
  [ statements : SeqUpTo(Statements, MaxStatements),
    defaults   : SeqUpTo(DefaultValues, 1),
    bases      : SeqUpTo(BasePaths, 1) ]

\* payload.matchAll(regex): the matches of one expression, in text order
matchAll(statements, t) == SelectSeq(statements, LAMBDA m : m.t = t)

\* for (const storedKey of keys) map[storedKey] = value;
mapWith(map, keys, value) ==
  [ k \in DOMAIN map \cup keys |-> IF k \in keys THEN value ELSE map[k] ]

\* Each label is mapped on its own: labels without a value are dropped.
caseStep_ownKey(acc, match) ==
  IF match.value # noValue
  THEN [map |-> mapWith(acc.map, {match.key}, match.value), keys |-> <<>>]
  ELSE acc

\* body of the caseRegex loop
caseStep(acc, match) ==
  LET keys == Append(acc.keys, match.key)
  IN  IF match.value # noValue
      THEN [map |-> mapWith(acc.map, Range(keys), match.value), keys |-> <<>>]
      ELSE [map |-> acc.map, keys |-> keys]

RECURSIVE casePass(_, _)
casePass(matches, acc) ==
  IF matches = <<>> THEN acc
  ELSE casePass(Tail(matches), caseStep(acc, Head(matches)))

RECURSIVE ifPass(_, _)
ifPass(matches, map) ==
  IF matches = <<>> THEN map
  ELSE ifPass(Tail(matches),
              mapWith(map, {Head(matches).key}, Head(matches).value))

\* .replace(/^\/+|\/+$/g, "")
RECURSIVE stripSlashes(_)
stripSlashes(path) ==
  IF path = <<>> THEN path
  ELSE IF Head(path) = "/" THEN stripSlashes(Tail(path))
  ELSE IF path[Len(path)] = "/" THEN stripSlashes(SubSeq(path, 1, Len(path) - 1))
  ELSE path

noMap == [found |-> FALSE]

parseServerMap(text) ==
  LET cases == casePass(matchAll(text.statements, "case"),
                        [map |-> <<>>, keys |-> <<>>])
      map   == ifPass(matchAll(text.statements, "if"), cases.map)
  IN  IF text.bases = <<>> THEN noMap
      ELSE [ found         |-> TRUE,
             map           |-> map,
             basePath      |-> stripSlashes(Head(text.bases)),
             defaultServer |-> IF text.defaults = <<>> THEN 0
                               ELSE Head(text.defaults) ]

InitParse ==
  /\ InitExport
  /\ serverMapPromise = 0 /\ promises = <<>> /\ callers = <<>> /\ microtasks = <<>>
  /\ payload \in Payloads
  /\ parsed = [called |-> FALSE]
  /\ hash = <<>>
  /\ hashNumber = [called |-> FALSE]
  /\ args = <<>>
  /\ result = [called |-> FALSE]

callParseServerMap ==
  /\ ~parsed.called
  /\ parsed' = [called |-> TRUE, result |-> parseServerMap(payload)]
  /\ UNCHANGED <<exportVars, mapVars, payload, hashVars, callVars>>

NextParse == callParseServerMap

SpecParse == InitParse /\ [][NextParse]_vars

\* C9: parseServerMap keeps fallthrough and override precedence.  In a parsed
\* script, every case label that is followed by an assignment (its own, or the
\* next one after a run of bare labels) is mapped to that assignment's value,
\* the last such occurrence of a label deciding; a bucket with an if-override
\* is mapped to the override's value whatever the case pass gave it; every
\* other bucket is exactly as the case pass left it; and "case 1: case 2:
\* case 3: o = 5" with the override 2 -> 9 gives 1 -> 5, 2 -> 9, 3 -> 5.
caseMatches == matchAll(payload.statements, "case")

ifMatches == matchAll(payload.statements, "if")

Assigned(i) == \E j \in i..Len(caseMatches) : caseMatches[j].value # noValue

nextAssignment(i) ==
  CHOOSE j \in i..Len(caseMatches) :
    /\ caseMatches[j].value # noValue
    /\ \A h \in i..(j - 1) : caseMatches[h].value = noValue

Overridden(k) == \E i \in 1..Len(ifMatches) : ifMatches[i].key = k

lastOverride(k) ==
  CHOOSE i \in 1..Len(ifMatches) :
    /\ ifMatches[i].key = k
    /\ \A j \in (i + 1)..Len(ifMatches) : ifMatches[j].key # k

Relabelled(i) ==
  \E j \in (i + 1)..Len(caseMatches) :
    caseMatches[j].key = caseMatches[i].key /\ Assigned(j)

FallthroughKept ==
  \A i \in 1..Len(caseMatches) :
    (Assigned(i) /\ ~Relabelled(i) /\ ~Overridden(caseMatches[i].key)) =>
      /\ caseMatches[i].key \in DOMAIN parsed.result.map
      /\ parsed.result.map[caseMatches[i].key]
           = caseMatches[nextAssignment(i)].value

OverrideWins ==
  \A k \in Keys :
    Overridden(k) =>
      /\ k \in DOMAIN parsed.result.map
      /\ parsed.result.map[k] = ifMatches[lastOverride(k)].value

OthersUnchanged ==
  LET cases == casePass(caseMatches, [map |-> <<>>, keys |-> <<>>]).map
  IN  \A k \in Keys :
        ~Overridden(k) =>
          /\ k \in DOMAIN parsed.result.map <=> k \in DOMAIN cases
          /\ k \in DOMAIN cases => parsed.result.map[k] = cases[k]

fallthroughExample ==
  <<caseMatch(1, noValue), caseMatch(2, noValue), caseMatch(3, 5), ifMatch(2, 9)>>

C9_FallthroughAndOverride ==
  (parsed.called /\ parsed.result.found) =>
    /\ FallthroughKept
    /\ OverrideWins
    /\ OthersUnchanged
    /\ payload.statements = fallthroughExample =>
         parsed.result.map = (1 :> 5 @@ 2 :> 9 @@ 3 :> 5)

C9_Witness ==
  /\ parsed.called
  /\ parsed.result.found
  /\ payload.statements = fallthroughExample
  /\ parsed.result.map[1] = 5 /\ parsed.result.map[2] = 9

\* ------------------------------------------------- hitomi.ts: resolveHashNumber
\* A hash is a sequence of characters: the sixteen hex digits, and "x", which
\* is no hex digit but is read by parseInt in a leading "0x".
HexDigits ==
  <<"0", "1", "2", "3", "4", "5", "6", "7", "8", "9", "a", "b", "c", "d", "e", "f">>

HashChars == Range(HexDigits) \cup {"x"}

Hashes == SeqUpTo(HashChars, MaxHashLen)

NaN == -1

isHexDigit(ch) == \E d \in 1..16 : HexDigits[d] = ch

hexValue(ch) == (CHOOSE d \in 1..16 : HexDigits[d] = ch) - 1

\* String.prototype.slice(start, end) with negative positions counted from the end
slice(str, start, end) ==
  LET from == IF start < 0 THEN Max(Len(str) + start, 0) ELSE Min(start, Len(str))
      to   == IF end < 0 THEN Max(Len(str) + end, 0) ELSE Min(end, Len(str))
  IN  SubSeq(str, from + 1, to)

\* value of the longest prefix of hex digits, after acc; digits counts them
RECURSIVE parseDigits(_, _, _)
parseDigits(str, acc, digits) ==
  IF str = <<>> \/ ~isHexDigit(Head(str))
  THEN IF digits = 0 THEN NaN ELSE acc
  ELSE parseDigits(Tail(str), acc * 16 + hexValue(Head(str)), digits + 1)

\* Number.parseInt(str, 16)
parseInt16(str) ==
  IF Len(str) >= 2 /\ str[1] = "0" /\ str[2] = "x"
  THEN parseDigits(SubSeq(str, 3, Len(str)), 0, 0)
  ELSE parseDigits(str, 0, 0)

\* The whole hash is parsed.
hashCode_whole(str) == str

\* The plain trailing three characters.
hashCode_trailing(str) == slice(str, -3, Len(str))

\* hash.slice(-1) + hash.slice(-3, -1)
hashCode(str) == slice(str, -1, Len(str)) \o slice(str, -3, -1)

noBucket == [found |-> FALSE]

resolveHashNumber(str) ==
  IF Len(str) < 3 THEN noBucket
  ELSE LET value == parseInt16(hashCode(str))
       IN  IF value # NaN THEN [found |-> TRUE, value |-> value] ELSE noBucket

InitHash ==
  /\ InitExport
  /\ serverMapPromise = 0 /\ promises = <<>> /\ callers = <<>> /\ microtasks = <<>>
  /\ payload = [statements |-> <<>>, defaults |-> <<>>, bases |-> <<>>]
  /\ parsed = [called |-> FALSE]
  /\ hash \in Hashes
  /\ hashNumber = [called |-> FALSE]
  /\ args = <<>>
  /\ result = [called |-> FALSE]

callResolveHashNumber ==
  /\ ~hashNumber.called
  /\ hashNumber' = [called |-> TRUE, result |-> resolveHashNumber(hash)]
  /\ UNCHANGED <<exportVars, mapVars, parseVars, hash, callVars>>

NextHash == callResolveHashNumber

SpecHash == InitHash /\ [][NextHash]_vars

\* C10: for a hash of at least three characters, all of them hex digits, the
\* bucket is the base-16 value of the last character followed by the two
\* characters before it (256 * c3 + 16 * c1 + c2 for a hash ending c1 c2 c3);
\* a hash of fewer than three characters has no bucket.
IsHex(str) == \A i \in 1..Len(str) : isHexDigit(str[i])

C10_BucketOrder ==
  hashNumber.called =>
    /\ Len(hash) < 3 => ~hashNumber.result.found
    /\ (Len(hash) >= 3 /\ IsHex(hash)) =>
         /\ hashNumber.result.found
         /\ hashNumber.result.value
              = 256 * hexValue(hash[Len(hash)])
                + 16 * hexValue(hash[Len(hash) - 2])
                + hexValue(hash[Len(hash) - 1])

\* "a123": the bucket is 0x312 = 786, the trailing substring would give 0x123 = 291
C10_Witness ==
  /\ hashNumber.called
  /\ hash = <<"a", "1", "2", "3">>
  /\ hashNumber.result.found
  /\ hashNumber.result.value = 786

\* ------------------------------------------------- hitomi.ts: getHitomiServerMap
\* What the fetch of the routing script can deliver: a rejection, or a response
\* with its ok flag and its text.
emptyText == [statements |-> <<>>, defaults |-> <<>>, bases |-> <<>>]

noBaseText ==
  [statements |-> <<caseMatch(1, 5)>>, defaults |-> <<1>>, bases |-> <<>>]

routingText ==
  [statements |-> fallthroughExample, defaults |-> <<1>>,
   bases |-> << <<"/", "a", "/">> >>]

Responses ==
  { [rejected |-> TRUE] }
    \cup [rejected : {FALSE}, ok : {FALSE}, text : {routingText}]
    \cup [rejected : {FALSE}, ok : {TRUE}, text : {emptyText, noBaseText, routingText}]

\* promise states
pending(reactions) == [state |-> "pending", reactions |-> reactions]

fulfilled(value) == [state |-> "fulfilled", value |-> value]

rejected == [state |-> "rejected"]

\* .then((response) => (response.ok ? response.text() : ""))
thenText(response) ==
  IF response.rejected THEN rejected
  ELSE fulfilled(IF response.ok THEN response.text ELSE emptyText)

\* .then((payload) => (payload ? parseServerMap(payload) : null))
thenParse(settled) ==
  IF settled.state = "rejected" THEN rejected
  ELSE fulfilled(IF settled.value # emptyText
                 THEN parseServerMap(settled.value) ELSE noMap)

\* .catch(() => null)
catchNull(settled) ==
  IF settled.state = "rejected" THEN fulfilled(noMap) ELSE settled

resolution(response) == catchNull(thenParse(thenText(response)))

\* Every call starts a fetch of its own.
startsFetch_always == TRUE

\* if (!serverMapPromise)
startsFetch == serverMapPromise = 0

\* The cache is cleared after every resolution.
cacheAfter_cleared(resolved) == 0

\* The cache is left as it is after a failed resolution.
cacheAfter_kept(resolved) == serverMapPromise

\* if (!resolved) serverMapPromise = null;
cacheAfter(resolved) == IF ~resolved.found THEN 0 ELSE serverMapPromise

resumeJob(c) == [job |-> "resume", caller |-> c]

callerJob(c) == [job |-> "caller", caller |-> c]

\* Code that calls getHitomiServerMap runs as a job at the head of the queue:
\* a task in which React runs the load effect (caller 0), or the code of a
\* caller that follows a returned call.  Jobs run to completion, in FIFO order.
CallerCodeRuns ==
  IF microtasks = <<>> THEN FALSE ELSE Head(microtasks).job = "caller"

\* hitomi-viewer.tsx: a task starts in which load effects run
taskStarts ==
  /\ microtasks = <<>>
  /\ Len(callers) < MaxCallers
  /\ microtasks' = <<callerJob(0)>>
  /\ UNCHANGED <<serverMapPromise, promises, callers, exportVars, parseVars, hashVars, callVars>>

\* lines 107-115: the call up to its await
getHitomiServerMap ==
  /\ Len(callers) < MaxCallers
  /\ CallerCodeRuns
  /\ startsFetch => Len(promises) < MaxFetches
  /\ LET c       == Len(callers) + 1
         chained == IF startsFetch THEN Append(promises, pending(<<>>))
                    ELSE promises
         p       == IF startsFetch THEN Len(promises) + 1 ELSE serverMapPromise
         found   == IF startsFetch THEN "nothing" ELSE promises[p].state
     IN  /\ serverMapPromise' = p
         /\ callers' = Append(callers,
                         [pc |-> "await", awaited |-> p, found |-> found])
         /\ IF chained[p].state = "pending"
            THEN /\ promises' = [chained EXCEPT ![p].reactions = Append(@, c)]
                 /\ microtasks' = microtasks
            ELSE /\ promises' = chained
                 /\ microtasks' = Append(microtasks, resumeJob(c))
  /\ UNCHANGED <<exportVars, parseVars, hashVars, callVars>>

\* The fetch chain of lines 109-112 settles: the network delivers in a task, and
\* the reactions of the awaiting calls are queued in the order of their awaits.
settle ==
  \E p \in 1..Len(promises), response \in Responses :
    /\ promises[p].state = "pending"
    /\ microtasks = <<>>
    /\ promises' = [promises EXCEPT ![p] = resolution(response)]
    /\ microtasks' = [i \in 1..Len(promises[p].reactions) |->
                        resumeJob(promises[p].reactions[i])]
    /\ UNCHANGED <<serverMapPromise, callers, exportVars, parseVars, hashVars, callVars>>

\* lines 115-119: the call from its await to its return
resume ==
  /\ microtasks # <<>>
  /\ Head(microtasks).job = "resume"
  /\ LET c       == Head(microtasks).caller
         settled == promises[callers[c].awaited]
     IN  IF settled.state = "rejected"
         THEN /\ callers' = [callers EXCEPT ![c].pc = "threw"]
              /\ UNCHANGED serverMapPromise
              /\ microtasks' = Append(Tail(microtasks), callerJob(c))
         ELSE /\ serverMapPromise' = cacheAfter(settled.value)
              /\ callers' = [callers EXCEPT
                               ![c] = [pc |-> "returned", awaited |-> @.awaited,
                                       found |-> @.found, result |-> settled.value]]
              /\ microtasks' = Append(Tail(microtasks), callerJob(c))
  /\ UNCHANGED <<promises, exportVars, parseVars, hashVars, callVars>>

\* hitomi-viewer.tsx: the running task, or the code of the caller after the call
\* has returned, ends
callerDone ==
  /\ microtasks # <<>>
  /\ Head(microtasks).job = "caller"
  /\ microtasks' = Tail(microtasks)
  /\ UNCHANGED <<serverMapPromise, promises, callers, exportVars, parseVars, hashVars, callVars>>

NextMap == taskStarts \/ getHitomiServerMap \/ settle \/ resume \/ callerDone

SpecMap == Init /\ [][NextMap]_vars

Pending(p) == promises[p].state = "pending"

Succeeded(p) == promises[p].state = "fulfilled" /\ promises[p].value.found

Failed(p) == ~Pending(p) /\ ~Succeeded(p)

FetchIssued == Len(promises') > Len(promises)

CallStep == Len(callers') > Len(callers)

newCall == callers'[Len(callers')]

\* C7: the routing script is fetched only when no resolution is pending and no
\* successful one is cached.  At most one resolution is pending or successful,
\* it is the latest one and the cache holds it; a call made while it is pending
\* or after it succeeded starts no fetch and awaits it; and every call that
\* awaited the successful resolution returns its map.
C7_SharedResolution ==
  /\ [](\A p \in 1..Len(promises) :
          (Pending(p) \/ Succeeded(p)) =>
            p = Len(promises) /\ serverMapPromise = p)
  /\ [](\A c \in 1..Len(callers) :
          (callers[c].pc = "returned" /\ Succeeded(callers[c].awaited)) =>
            callers[c].result = promises[callers[c].awaited].value)
  /\ [][FetchIssued => \A p \in 1..Len(promises) : Failed(p)]_vars
  /\ [][\A p \in 1..Len(promises) :
          (CallStep /\ (Pending(p) \/ Succeeded(p))) =>
            ~FetchIssued /\ newCall.awaited = p]_vars

C7_Witness ==
  /\ Len(promises) = 1
  /\ Succeeded(1)
  /\ Len(callers) = 3
  /\ callers[1].found = "nothing"
  /\ callers[2].found = "pending"
  /\ callers[3].found = "fulfilled"
  /\ \A c \in 1..3 :
       callers[c].pc = "returned" /\ callers[c].result = promises[1].value

\* C8: a failed resolution is returned as the failure value, never thrown, and
\* is cleared from the cache.  No promise of the chain ends rejected and no call
\* throws; once a call has returned the failure of a resolution the cache no
\* longer holds that resolution; and the next call starts a fresh fetch and
\* awaits it.
FailureReturned(p) ==
  \E c \in 1..Len(callers) :
    /\ callers[c].pc = "returned"
    /\ callers[c].awaited = p
    /\ ~callers[c].result.found

C8_FailureCleared ==
  /\ [](\A p \in 1..Len(promises) : promises[p].state # "rejected")
  /\ [](\A c \in 1..Len(callers) :
          /\ callers[c].pc # "threw"
          /\ (callers[c].pc = "returned" /\ Failed(callers[c].awaited)) =>
               ~callers[c].result.found)
  /\ [](\A p \in 1..Len(promises) : FailureReturned(p) => serverMapPromise # p)
  /\ [][(CallStep /\ Len(promises) > 0 /\ FailureReturned(Len(promises))) =>
          /\ FetchIssued
          /\ newCall.awaited = Len(promises')
          /\ promises'[Len(promises')].state = "pending"]_vars

C8_Witness ==
  /\ Len(promises) = 2
  /\ FailureReturned(1)
  /\ Len(callers) >= 2
  /\ callers[Len(callers)].awaited = 2
  /\ callers[Len(callers)].found = "nothing"

\* ------------------------------------------------- functions called on their own
\* The state before one function is called with arguments drawn from inputs.
InitOthers ==
  /\ InitExport
  /\ serverMapPromise = 0 /\ promises = <<>> /\ callers = <<>> /\ microtasks = <<>>
  /\ payload = [statements |-> <<>>, defaults |-> <<>>, bases |-> <<>>]
  /\ parsed = [called |-> FALSE]
  /\ hash = <<>>
  /\ hashNumber = [called |-> FALSE]

InitCall(inputs) ==
  /\ InitOthers
  /\ args \in inputs
  /\ result = [called |-> FALSE]

\* The call itself: the function is applied once to the arguments.
returns(value) ==
  /\ ~result.called
  /\ result' = [called |-> TRUE, value |-> value]
  /\ UNCHANGED <<exportVars, mapVars, parseVars, hashVars, args>>

\* ------------------------------------------------- hitomi.ts: resolveHitomiImageUrl
\* Extensions and names are sequences of characters; a file name is the
\* sequence of its "."-separated parts.
webp == <<"w", "e", "b", "p">>

avif == <<"a", "v", "i", "f">>

jpg == <<"j", "p", "g">>

lowerChar(ch) ==
  CASE ch = "J" -> "j" [] ch = "P" -> "p" [] ch = "G" -> "g" [] OTHER -> ch

toLowerCase(str) == [i \in 1..Len(str) |-> lowerChar(str[i])]

\* name.split(".").pop()
lastPart(name) == name[Len(name)]

FileNames ==
  { << <<>> >>,
    << <<"1">> >>,
    << <<"1">>, <<"J", "P", "G">> >>,
    << <<"1">>, <<"p", "n", "g">> >> }

UrlHashes == SeqUpTo({"0", "1", "f", "x"}, MaxHashLen)

Files ==
  [ hash : UrlHashes, haswebp : BOOLEAN, hasavif : BOOLEAN, name : FileNames ]

resolveHitomiExtension(file) ==
  IF file.haswebp THEN webp
  ELSE IF file.hasavif THEN avif
  ELSE IF lastPart(file.name) # <<>> THEN toLowerCase(lastPart(file.name))
  ELSE jpg

getHitomiImageVariants(file) ==
  LET flagged == (IF file.haswebp THEN <<webp>> ELSE <<>>)
                   \o (IF file.hasavif THEN <<avif>> ELSE <<>>)
      originalExt == toLowerCase(lastPart(file.name))
      named == IF originalExt # <<>> /\ originalExt \notin Range(flagged)
               THEN Append(flagged, originalExt) ELSE flagged
  IN  IF named = <<>> THEN <<jpg>> ELSE named

\* The server maps the viewer holds are results of parseServerMap.
UrlBuckets == {1, 16}

UrlServers == {0, 5}

UrlPayloads ==
  [ statements : SeqUpTo({ caseMatch(k, v) : k \in UrlBuckets, v \in UrlServers }, 2),
    defaults   : SeqUpTo(DefaultValues, 1),
    bases      : { <<b>> : b \in BasePaths } ]

ServerMaps == { parseServerMap(p) : p \in UrlPayloads }

\* (file, serverMap, overrideExt): the viewer passes each variant of the file;
\* <<>> is the call without overrideExt.
UrlCalls ==
  UNION { [ file        : {f},
            serverMap   : ServerMaps,
            overrideExt : {<<>>} \cup { <<v>> : v \in Range(getHitomiImageVariants(f)) } ] :
          f \in Files }

noUrl == [found |-> FALSE]

\* The map value is used as the server id.
serverIdOf_zeroBased(serverValue) == serverValue

\* Number.isFinite(serverValue) ? serverValue + 1 : 1, on the numbers the parser stores
serverIdOf(serverValue) == serverValue + 1

resolveHitomiImageUrl(file, serverMap, overrideExt) ==
  IF file.hash = <<>> THEN noUrl
  ELSE LET bucket == resolveHashNumber(file.hash)
       IN  IF ~bucket.found THEN noUrl
           ELSE LET ext == toLowerCase(IF overrideExt # <<>> THEN overrideExt[1]
                                       ELSE resolveHitomiExtension(file))
                    serverValue == IF bucket.value \in DOMAIN serverMap.map
                                   THEN serverMap.map[bucket.value]
                                   ELSE serverMap.defaultServer
                IN  [ found      |-> TRUE,
                      hostPrefix |-> IF ext # <<>> THEN ext[1] ELSE "i",
                      serverId   |-> serverIdOf(serverValue),
                      basePath   |-> serverMap.basePath,
                      hashNumber |-> bucket.value,
                      hash       |-> file.hash,
                      ext        |-> ext ]

callResolveHitomiImageUrl ==
  returns(resolveHitomiImageUrl(args.file, args.serverMap, args.overrideExt))

NextUrl == callResolveHitomiImageUrl

SpecUrl == InitCall(UrlCalls) /\ [][NextUrl]_vars

\* C11: for a file whose hash gives a bucket, the server id of the resolved URL
\* is map[bucket] + 1 when the server map has the bucket and defaultServer + 1
\* when it has not, and the host prefix is the first character of the extension
\* the URL is built for (the override, else the file's own extension).
UrlResolved == result.called /\ resolveHashNumber(args.file.hash).found

targetExt ==
  IF args.overrideExt # <<>> THEN args.overrideExt[1]
  ELSE resolveHitomiExtension(args.file)

C11_ServerIdAndPrefix ==
  UrlResolved =>
    LET bucket == resolveHashNumber(args.file.hash).value
    IN  /\ result.value.found
        /\ bucket \in DOMAIN args.serverMap.map =>
             result.value.serverId = args.serverMap.map[bucket] + 1
        /\ bucket \notin DOMAIN args.serverMap.map =>
             result.value.serverId = args.serverMap.defaultServer + 1
        /\ result.value.hostPrefix = targetExt[1]

C11_Witness ==
  /\ UrlResolved
  /\ args.file.hash = <<"0", "1", "0">>
  /\ 1 \in DOMAIN args.serverMap.map
  /\ args.serverMap.map[1] = 5
  /\ result.value.serverId = 6
  /\ result.value.hostPrefix = "a"

\* ------------------------------------------------- hitomi-viewer.tsx: resolveTilePlan
\* The function step by step: the initial counts, each pass of the refinement
\* loop, and the return.
PlanCalls ==
  [ width : 1..MaxSide, height : 1..MaxSide,
    maxDimension : 1..MaxLimit, maxPixels : 1..MaxSide ]

InitPlan ==
  /\ InitOthers
  /\ args \in PlanCalls
  /\ result = [called |-> FALSE, pc |-> "start", increments |-> 0,
               value |-> planOf(1, 1, 1, 1)]

planVarsUnchanged == UNCHANGED <<exportVars, mapVars, parseVars, hashVars, args>>

\* lines 198-203
startPlan ==
  /\ result.pc = "start"
  /\ result' = [result EXCEPT
                  !.pc = "loop",
                  !.value = planOf(initialCount(args.width, args.maxDimension),
                                   initialCount(args.height, args.maxDimension),
                                   args.width, args.height)]
  /\ planVarsUnchanged

\* lines 205-213, one pass that adds a column
addColumn ==
  /\ result.pc = "loop"
  /\ overLimit(result.value, args.maxPixels)
  /\ addsColumn(result.value)
  /\ result' = [result EXCEPT
                  !.value = refinePlan(result.value, args.width, args.height),
                  !.increments = @ + 1]
  /\ planVarsUnchanged

\* lines 205-213, one pass that adds a row
addRow ==
  /\ result.pc = "loop"
  /\ overLimit(result.value, args.maxPixels)
  /\ ~addsColumn(result.value)
  /\ result' = [result EXCEPT
                  !.value = refinePlan(result.value, args.width, args.height),
                  !.increments = @ + 1]
  /\ planVarsUnchanged

\* line 215
returnPlan ==
  /\ result.pc = "loop"
  /\ ~overLimit(result.value, args.maxPixels)
  /\ result' = [result EXCEPT !.pc = "done", !.called = TRUE]
  /\ planVarsUnchanged

NextPlan == startPlan \/ addColumn \/ addRow \/ returnPlan

SpecPlan == InitPlan /\ [][NextPlan]_vars

\* The body of resolveTilePlan is sequential code: it keeps running until it returns.
SpecPlanLive == SpecPlan /\ WF_vars(NextPlan)

\* C12: the returned plan keeps every tile within maxDimension on both sides
\* and within maxPixels in area, and its grid covers the image.
C12_PlanWithinLimits ==
  result.called =>
    /\ result.value.tileWidth <= args.maxDimension
    /\ result.value.tileHeight <= args.maxDimension
    /\ result.value.tileWidth * result.value.tileHeight <= args.maxPixels
    /\ result.value.cols * result.value.tileWidth >= args.width
    /\ result.value.rows * result.value.tileHeight >= args.height

C12_Witness ==
  /\ result.called
  /\ args = [width |-> 6, height |-> 6, maxDimension |-> 4, maxPixels |-> 2]
  /\ result.value.cols > 2
  /\ result.value.rows > 2

\* C20: the refinement loop ends.  The call returns; each pass adds one column
\* when the tile is at least as wide as it is high and one row otherwise; and
\* the passes never number more than width + height.
PassTaken == result'.increments = result.increments + 1

C20_LoopTerminates ==
  /\ <>(result.called)
  /\ [](result.increments <= args.width + args.height)
  /\ [][PassTaken =>
          IF result.value.tileWidth >= result.value.tileHeight
          THEN /\ result'.value.cols = result.value.cols + 1
               /\ result'.value.rows = result.value.rows
          ELSE /\ result'.value.rows = result.value.rows + 1
               /\ result'.value.cols = result.value.cols]_vars

C20_Witness ==
  /\ result.called
  /\ result.increments >= 5
  /\ result.value.cols > initialCount(args.width, args.maxDimension)
  /\ result.value.rows > initialCount(args.height, args.maxDimension)

\* ------------------------------------------------- the combine export alone
loadTallGallery == loadFrom(TallGalleries)

requestCombine ==
  \E format \in Formats, packaging \in {"zip", "single"} :
    handleDownloadImages(format, packaging, FALSE, TRUE)

NextCombine ==
  \/ loadTallGallery
  \/ requestCombine
  \/ probeFormat
  \/ measureImage
  \/ openFirstChunk
  \/ drawImage
  \/ drawSlice
  \/ flushLast

SpecCombine == Init /\ [][NextCombine]_vars

\* ------------------------------------------------- properties of the combine branch
\* C13: in a combine export that retrieved every image and encoded every chunk,
\* the heights of the chunks sum to the sum of the images' scaled heights, and
\* the slices drawn follow one another down the stack without gap or overlap,
\* each inside the canvas of its chunk.
RECURSIVE chunkHeights(_, _)
chunkHeights(r, last) ==
  IF last < 0 THEN 0 ELSE openChunk(r, last) + chunkHeights(r, last - 1)

RECURSIVE drawnBefore(_, _)
drawnBefore(slices, k) ==
  IF k <= 1 THEN 0 ELSE slices[k - 1].height + drawnBefore(slices, k - 1)

CombineComplete ==
  /\ CombineFlushed
  /\ \A i \in 1..Len(images) : run.fetched[i] = "blob"
  /\ run.chunks = 0..run.chunkIndex

SlicePlaced(k) ==
  LET piece == run.slices[k]
  IN  /\ piece.chunk * run.chunkHeight * run.scaleDen + piece.destY
           = drawnBefore(run.slices, k)
      /\ piece.height > 0 =>
           /\ piece.destY >= 0
           /\ piece.destY + piece.height
                <= openChunk(run, piece.chunk) * run.scaleDen

C13_HeightConserved ==
  CombineComplete =>
    /\ chunkHeights(run, run.chunkIndex) * run.scaleDen
         = sumHeights(run.dimensions) * run.scaleNum
    /\ \A k \in 1..Len(run.slices) : SlicePlaced(k)

\* ------------------------------------------------- properties of the packager
\* C14: with zip packaging nothing but the archive is ever saved, at most once,
\* and nothing is written after it; an export that ran to its end with some
\* unit encoded has saved the archive, whose entries are one per encoded tile or
\* chunk.  With individual files every encoded unit is saved in the step that
\* produces it and no archive is saved.
Archives == { k \in 1..Len(saved) : saved[k].stem[1] = "zip" }

RanToEnd == (ImagesExportEnded /\ exit = "completed") \/ CombineFlushed

UnitsEncoded == Cardinality(run.tiles) + Cardinality(run.chunks)

ZipPackaging ==
  (run.kind = "images" /\ run.packaging = "zip") =>
    /\ Archives = 1..Len(saved)
    /\ Len(saved) <= 1
    /\ (RanToEnd /\ UnitsEncoded > 0) =>
         /\ Len(saved) = 1
         /\ Cardinality(run.entries) = UnitsEncoded

SinglePackaging ==
  (run.kind = "images" /\ run.packaging = "single") =>
    /\ Archives = {}
    /\ Len(saved) = UnitsEncoded
    /\ run.entries = {}

C14_Packaging ==
  /\ [](ZipPackaging /\ SinglePackaging)
  /\ [][(Archives # {} /\ saved' = saved) => run'.entries = run.entries]_vars

\* ------------------------------------------------- hitomi-viewer.tsx: file names as text
\* The characters of file names, in code-unit order.
CharOrder ==
  <<"-", ".", "0", "1", "2", "3", "4", "5", "6", "7", "8", "9",
    "a", "b", "c", "d", "e", "f", "g", "h", "i", "j", "k", "l", "m",
    "n", "o", "p", "q", "r", "s", "t", "u", "v", "w", "x", "y", "z">>

charCode(ch) == CHOOSE k \in 1..Len(CharOrder) : CharOrder[k] = ch

extensionText ==
  [ png  |-> <<"p", "n", "g">>, jpg  |-> <<"j", "p", "g">>,
    webp |-> <<"w", "e", "b", "p">>, avif |-> <<"a", "v", "i", "f">> ]

baseLabel == <<"g">>

\* `${baseLabel}-${padIndex(index + 1)}${suffix}.${formatConfig.extension}`
fileNameText(name) ==
  baseLabel \o <<"-">> \o name.stem
    \o (IF name.part = <<>> THEN <<>>
        ELSE <<"-", "p", "a", "r", "t", "-">> \o toDigits(name.part[1])
               \o <<"-">> \o toDigits(name.part[2]))
    \o <<".">> \o extensionText[name.ext]

\* a < b for strings
RECURSIVE lexLess(_, _)
lexLess(a, b) ==
  IF b = <<>> THEN FALSE
  ELSE IF a = <<>> THEN TRUE
  ELSE IF Head(a) # Head(b) THEN charCode(Head(a)) < charCode(Head(b))
  ELSE lexLess(Tail(a), Tail(b))

\* Two pages of a gallery of `total` images, each whole or cut into tiles, and
\* the tile whose name is taken.
tiledPlan == planOf(2, 2, 2, 2)

wholePlan == planOf(1, 1, 1, 1)

NameCalls ==
  { c \in [ total : 1..MaxPages, first : 1..MaxPages, second : 1..MaxPages,
            firstPlan : {wholePlan, tiledPlan}, secondPlan : {wholePlan, tiledPlan},
            row : 0..1, col : 0..1, extension : {"png", "webp"} ] :
      c.first < c.second /\ c.second <= c.total }

callPageFileNames ==
  returns(<< fileNameText(pageFileName(args.first, args.total, args.firstPlan,
                                       args.row, args.col, args.extension)),
             fileNameText(pageFileName(args.second, args.total, args.secondPlan,
                                       args.row, args.col, args.extension)) >>)

NextNames == callPageFileNames

SpecNames == InitCall(NameCalls) /\ [][NextNames]_vars

\* C15: in a gallery of N images the page index of a file name has as many
\* digits as N, and the name of page i sorts before the name of page j whenever
\* i < j, whether the pages are whole or cut into tiles.
indexOf(text) == SubSeq(text, Len(baseLabel) + 2, Len(baseLabel) + 1 + Len(toDigits(args.total)))

C15_PaddedOrder ==
  result.called =>
    /\ indexOf(result.value[1]) = padStart(toDigits(args.first), Len(toDigits(args.total)))
    /\ \A k \in 1..Len(toDigits(args.total)) : indexOf(result.value[1])[k] \in Range(DigitChars)
    /\ lexLess(result.value[1], result.value[2])

C15_Witness ==
  /\ result.called
  /\ args.total = 12 /\ args.first = 2 /\ args.second = 10
  /\ args.firstPlan = tiledPlan /\ args.secondPlan = wholePlan
  /\ SubSeq(result.value[1], 1, 4) = <<"g", "-", "0", "2">>
  /\ SubSeq(result.value[2], 1, 5) = <<"g", "-", "1", "0", ".">>

\* ------------------------------------------------- properties of the format probe
\* A source of the session's gallery has been requested.
FetchStarted == \E i \in DOMAIN run.fetched : run.fetched[i] # "none"

\* Every name written or saved so far.
NamesProduced == run.entries \cup Range(saved)

\* C16: an images export probes the format exactly once, before any source is
\* fetched; the configuration it uses from then on is the requested one when
\* the probe's test encode returned a blob and PNG otherwise, every tile, chunk
\* and archive name carries that configuration's extension, and the probe step
\* itself never ends the session or shows an error.
C16_ProbedOnce ==
  /\ [](run.kind = "images" =>
          /\ pc = "probe" => run.probes = 0 /\ ~FetchStarted /\ NamesProduced = {}
          /\ pc # "probe" =>
               /\ run.probes = 1
               /\ run.formatConfig = IF run.probed = "blob"
                                     THEN IMAGE_EXPORT_CONFIG[run.format]
                                     ELSE IMAGE_EXPORT_CONFIG["png"]
               /\ \A name \in NamesProduced : name.ext = run.formatConfig.extension)
  /\ [][pc = "probe" /\ run' # run =>
          /\ pc' \in {"dims", "fetch"}
          /\ toasts' = toasts /\ exit' = exit /\ lock' = lock]_vars

\* An export that asked for AVIF, could not encode it, and packed PNG tiles into
\* an archive named after PNG.
C16_Witness ==
  /\ ImagesExportEnded /\ exit = "completed"
  /\ run.format = "avif" /\ run.probed = "null" /\ run.probes = 1
  /\ run.formatConfig.extension = "png"
  /\ FetchStarted
  /\ run.entries # {}
  /\ \E k \in 1..Len(saved) : saved[k] = zipFileName("", "png")

\* ------------------------------------------------- properties of the error handling
\* C17: no handler invocation ends with its exception unhandled; an exception
\* raised by a step of the images export or of the print export ends the
\* invocation in its catch block, with an error notification as the last one.
C17_FailuresReported ==
  /\ exit # "uncaught"
  /\ exit = "caught" => toasts # <<>> /\ toasts[Len(toasts)].type = "error"

\* ------------------------------------------------- hitomi-viewer.tsx: fetchImageBlob, step by step
\* The candidate sources of one image, each with what its request will do.
FetchCalls == UNION { [1..n -> FetchOutcomes] : n \in 0..MaxSources }

InitFetch ==
  /\ InitOthers
  /\ args \in FetchCalls
  /\ result = [called |-> FALSE, pc |-> "start", contacted |-> <<>>, value |-> 0]

\* A thrown request ends the function with null.
afterRequest_throwEnds(outcome) ==
  IF outcome = "ok" THEN "return" ELSE IF outcome = "throw" THEN "null" ELSE "continue"

\* try { response = await fetch(source); if (!response.ok) continue;
\*       return await response.blob(); } catch { continue; }
afterRequest(outcome) == IF outcome = "ok" THEN "return" ELSE "continue"

callFetchImageBlob ==
  /\ result.pc = "start"
  /\ result' = [result EXCEPT !.pc = "loop"]
  /\ planVarsUnchanged

\* One pass of `for (const source of sources)`.
requestSource ==
  /\ result.pc = "loop"
  /\ Len(result.contacted) < Len(args)
  /\ LET source == Len(result.contacted) + 1
         after  == afterRequest(args[source])
     IN  result' = [result EXCEPT
                      !.contacted = Append(@, source),
                      !.pc = IF after = "continue" THEN "loop" ELSE "done",
                      !.called = after # "continue",
                      !.value = IF after = "return" THEN source ELSE 0]
  /\ planVarsUnchanged

\* return null;
returnNull ==
  /\ result.pc = "loop"
  /\ Len(result.contacted) = Len(args)
  /\ result' = [result EXCEPT !.pc = "done", !.called = TRUE, !.value = 0]
  /\ planVarsUnchanged

NextFetch == callFetchImageBlob \/ requestSource \/ returnNull

SpecFetch == InitFetch /\ [][NextFetch]_vars

\* C18: the candidates are requested in list order, one after the other; a
\* candidate is requested only after every earlier one failed (response not ok,
\* or the request threw); the function returns the first candidate that
\* succeeds and requests none after it; it returns null only when every
\* candidate was requested and failed.
Succeeds(source) == args[source] = "ok"

C18_FirstSuccess ==
  /\ \A k \in 1..Len(result.contacted) :
       /\ result.contacted[k] = k
       /\ \A earlier \in 1..(k - 1) : ~Succeeds(earlier)
  /\ result.called =>
       /\ result.value = fetchImageBlob(args)
       /\ IF result.value # 0
          THEN /\ Succeeds(result.value)
               /\ Len(result.contacted) = result.value
          ELSE /\ Len(result.contacted) = Len(args)
               /\ \A source \in 1..Len(args) : ~Succeeds(source)

\* A non-success response, then a thrown request, then a success; the fourth
\* candidate is never requested.
C18_Witness ==
  /\ result.called
  /\ args = <<"notok", "throw", "ok", "ok">>
  /\ result.value = 3
  /\ result.contacted = <<1, 2, 3>>

\* ------------------------------------------------- properties of a failed encode
\* The step in which canvasToBlob returned null for a tile or for a chunk.
EncodeFails ==
  \/ run.lostTiles \subseteq run'.lostTiles /\ run'.lostTiles # run.lostTiles
  \/ run.lostChunks \subseteq run'.lostChunks /\ run'.lostChunks # run.lostChunks

\* The position after tile (row, col) of the image being cut.
nextTile(r) ==
  LET img  == images[r.index]
      plan == imagePlan(r.split, img.width, img.height, r.formatConfig)
  IN  IF r.col + 1 < plan.cols THEN <<r.index, r.row, r.col + 1>>
      ELSE IF r.row + 1 < plan.rows THEN <<r.index, r.row + 1, 0>>
      ELSE <<r.index + 1, 0, 0>>

\* Nothing written so far is lost, the loop goes on with the next unit, and the
\* step shows no error; the one error such a step can end in is that of the
\* archive it builds after the last chunk.
UnitSkipped ==
  /\ run'.entries = run.entries
  /\ run'.tiles = run.tiles /\ run'.chunks = run.chunks
  /\ pc = "tiles" =>
       /\ pc' \in {"tiles", "fetch", "finalize"}
       /\ <<run'.index, run'.row, run'.col>> = nextTile(run)
       /\ UNCHANGED <<saved, toasts, exit, lock>>
  /\ pc = "slice" =>
       /\ UNCHANGED <<saved, toasts>>
       /\ exit' # "caught"
       /\ pc' # "idle" =>
            /\ run'.chunkIndex = run.chunkIndex + 1
            /\ run'.canvas > 0
            /\ Len(run'.slices) = Len(run.slices) + 1
  /\ pc = "flush" =>
       /\ exit' = "caught" => zipsArchive(run)
       /\ exit' # "caught" =>
            /\ toasts' = toasts
            /\ zipsArchive(run) =>
                 saved' = Append(saved, zipFileName("combined", run.formatConfig.extension))

TilesOf(i) ==
  LET img  == images[i]
      plan == imagePlan(run.split, img.width, img.height, run.formatConfig)
  IN  { <<i, row, col>> : row \in 0..(plan.rows - 1), col \in 0..(plan.cols - 1) }

\* An export that ran to its end attempted every tile of every retrieved image,
\* or every chunk of the composite, and holds each one that could be encoded.
OthersWritten ==
  /\ (ImagesExportEnded /\ ~run.combine /\ exit = "completed") =>
       /\ \A i \in 1..Len(images) :
            run.fetched[i] = "blob" => TilesOf(i) \subseteq (run.tiles \cup run.lostTiles)
       /\ run.tiles \cap run.lostTiles = {}
       /\ \A t \in run.tiles :
            LET img  == images[t[1]]
                plan == imagePlan(run.split, img.width, img.height, run.formatConfig)
            IN  Stored(pageFileName(t[1], Len(images), plan, t[2], t[3],
                                    run.formatConfig.extension))
  /\ CombineFlushed =>
       /\ run.chunks \cup run.lostChunks = 0..run.chunkIndex
       /\ run.chunks \cap run.lostChunks = {}
       /\ \A c \in run.chunks :
            Stored(chunkFileName(run.totalChunks, c, run.formatConfig.extension))

\* C19: when the encode of one tile or of one combine chunk returns null, only
\* that unit is skipped: nothing already written is lost, the loop goes on with
\* the next tile, image or chunk, the step itself reports no error, and an
\* export that ran to its end has attempted every unit and holds every unit
\* that could be encoded.
C19_EncodeFailureIsolated ==
  /\ []OthersWritten
  /\ [][EncodeFails => UnitSkipped]_vars

\* A tile of the first image could not be encoded; another tile of that image
\* and the second image were written, and the export reported success.
C19_Witness ==
  /\ ImagesExportEnded /\ exit = "completed" /\ ~run.combine
  /\ Len(images) = 2
  /\ \E lost \in run.lostTiles, kept \in run.tiles :
       lost[1] = 1 /\ kept[1] = 1 /\ kept[2] >= lost[2] /\ kept # lost
  /\ \E kept \in run.tiles : kept[1] = 2
  /\ toasts[Len(toasts)].type = "success"

\* The first chunk of a composite could not be encoded; the second one was
\* written and packed.
C19_WitnessChunk ==
  /\ CombineFlushed
  /\ 0 \in run.lostChunks /\ 1 \in run.chunks
  /\ zipFileName("combined", run.formatConfig.extension) \in Range(saved)

\* ------------------------------------------------- properties of the chunk sizes
\* Every image of the gallery was drawn into the composite.
AllDrawn == \A i \in 1..Len(images) : sliceHeights(run.slices, i) > 0

\* C21: in a combine export every chunk surface has a height between 1 and
\* chunkHeight, chunkHeight is at most maxDimension, the surface holds at most
\* maxPixels pixels, and once every image is drawn the number of chunks encoded
\* is totalChunks = ceil(totalHeight / chunkHeight).
C21_ChunkLimits ==
  (run.kind = "images" /\ run.combine) =>
    /\ run.canvas > 0 =>
         /\ run.canvas <= run.chunkHeight
         /\ run.chunkHeight <= run.formatConfig.maxDimension
         /\ run.scaledWidth * run.canvas <= run.formatConfig.maxPixels
    /\ (CombineFlushed /\ AllDrawn) =>
         /\ run.totalChunks = CeilDiv(run.totalHeight, run.chunkHeight * run.scaleDen)
         /\ run.flushed = run.totalChunks

\* ------------------------------------------------- properties of the draw loop
\* Source height of image `image` consumed by the slices before the k-th.
RECURSIVE consumedBefore(_, _, _)
consumedBefore(slices, k, image) ==
  IF k <= 1 THEN 0
  ELSE (IF slices[k - 1].image = image THEN slices[k - 1].height ELSE 0)
       + consumedBefore(slices, k - 1, image)

\* C22: the slices of a combine export are drawn in gallery order; the source
\* offset of a slice is the height of its image already drawn; its destination
\* lies within the surface of its chunk; and the slices of an image whose
\* drawing has ended sum to its full scaled height.
C22_SlicesContiguous ==
  (run.kind = "images" /\ run.combine) =>
    /\ \A k \in 1..Len(run.slices) :
         LET piece == run.slices[k]
         IN  /\ k > 1 => run.slices[k - 1].image <= piece.image
             /\ piece.sourceY = consumedBefore(run.slices, k, piece.image)
             /\ piece.destY >= 0
             /\ piece.destY + piece.height <= openChunk(run, piece.chunk) * run.scaleDen
    /\ \A i \in 1..Len(images) :
         (sliceHeights(run.slices, i) > 0 /\ i < run.index) =>
           sliceHeights(run.slices, i) = images[i].height * run.scaleNum

\* ------------------------------------------------- properties of the chunk names
\* The chunk files written or saved by the session.
ChunkFiles == { name \in NamesProduced : name.stem = <<"combined">> }

\* C23: at the end of a combine export a single chunk file is named "combined"
\* and k > 1 chunk files are named "combined-part-1" .. "combined-part-k".
C23_ChunkNames ==
  CombineFlushed =>
    LET k == Cardinality(ChunkFiles)
    IN  /\ k = 1 => \A name \in ChunkFiles : name.part = <<>>
        /\ k > 1 => { name.part : name \in ChunkFiles } = { <<n>> : n \in 1..k }

\* ------------------------------------------------- properties of the decoded images
\* C24: the decoded images held by an images export are those preloaded and not
\* yet drawn and the one being cut or drawn; when the session is back to idle
\* none is held.
C24_HandlesReleased ==
  run.kind = "images" =>
    /\ run.live \subseteq (run.preload \cup {run.index})
    /\ pc = "idle" => run.live = {}

\* ------------------------------------------------- properties of the bucket number
\* C25: the bucket number with which resolveHitomiImageUrl indexes the server
\* map and builds the path lies in 0..255, for every hash of at least three hex
\* characters.
C25_BucketRange ==
  (UrlResolved /\ Len(args.file.hash) >= 3 /\ IsHex(args.file.hash)) =>
    /\ result.value.found
    /\ result.value.hashNumber \in 0..255

\* C25, amended: the bucket number is a number of three hex digits, 0..4095,
\* for every hash of at least three hex characters; the number that indexes
\* the server map is the one in the path.
C25_BucketBelow4096 ==
  /\ (result.called /\ Len(args.file.hash) >= 3 /\ IsHex(args.file.hash)) =>
       /\ result.value.found
       /\ result.value.hashNumber \in 0..4095
       /\ result.value.hashNumber = resolveHashNumber(args.file.hash).value
  /\ UrlResolved => result.value.hashNumber \in 0..4095

C25_Witness ==
  /\ UrlResolved
  /\ args.file.hash = <<"0", "f", "f", "f">>
  /\ result.value.hashNumber = 4095

\* ------------------------------------------------- properties of the tile crops
\* The crop rectangles the export loop takes under the returned plan.
Crops ==
  { tileCrop(result.value, args.width, args.height, row, col) :
      row \in 0..(result.value.rows - 1), col \in 0..(result.value.cols - 1) }

\* The pixels of a crop rectangle.
Pixels(crop) ==
  { <<x, y>> : x \in crop.sx..(crop.sx + crop.sw - 1),
               y \in crop.sy..(crop.sy + crop.sh - 1) }

RECURSIVE areaOf(_)
areaOf(crops) ==
  IF crops = {} THEN 0
  ELSE LET crop == CHOOSE c \in crops : TRUE
       IN  crop.sw * crop.sh + areaOf(crops \ {crop})

\* C26: under the plan resolveTilePlan returns, every crop rectangle of the
\* export loop has positive width and height, no two rectangles share a pixel,
\* and together they are exactly the pixels of the image.
C26_CropsPartition ==
  result.called =>
    /\ Cardinality(Crops) = result.value.rows * result.value.cols
    /\ \A crop \in Crops : crop.sw > 0 /\ crop.sh > 0
    /\ \A a, b \in Crops : a # b => Pixels(a) \cap Pixels(b) = {}
    /\ UNION { Pixels(crop) : crop \in Crops }
         = { <<x, y>> : x \in 0..(args.width - 1), y \in 0..(args.height - 1) }
    /\ areaOf(Crops) = args.width * args.height

\* A 5 x 6 image cut into a grid whose last column and last row are narrower.
C26_Witness ==
  /\ result.called
  /\ args.width = 5 /\ args.height = 6
  /\ result.value.cols = 3 /\ result.value.tileWidth = 2
  /\ result.value.rows >= 2
  /\ \E crop \in Crops : crop.sw = 1 /\ crop.sx = 4

\* ------------------------------------------------- properties of the cache reset
\* The step in which a resumed call clears the cache.
CacheReset == serverMapPromise # 0 /\ serverMapPromise' = 0

\* The call that the step resumes.
Resumed == callers[Head(microtasks).caller]

\* C27: a call only ever clears from the cache the failed resolution it awaited.
\* The resolution a reset clears has failed and is the one the resumed call
\* awaited; a call that resumes from a failed resolution while the cache holds
\* another one leaves the cache alone; and never are two resolutions pending.
C27_ResetOnlyObserved ==
  /\ [][CacheReset =>
          /\ Failed(serverMapPromise)
          /\ Resumed.awaited = serverMapPromise]_vars
  /\ [][\A p \in 1..Len(promises) :
          (Pending(p) \/ Succeeded(p)) =>
            (serverMapPromise = p => serverMapPromise' = p)]_vars
  /\ [](Cardinality({ p \in 1..Len(promises) : Pending(p) }) <= 1)

\* Two calls awaited the first resolution, which failed; both have returned (the
\* first cleared the cache, the second found it cleared), and a later call has
\* started the second resolution, which stays in the cache.
C27_Witness ==
  /\ Len(promises) = 2
  /\ Failed(1) /\ Pending(2)
  /\ serverMapPromise = 2
  /\ Len(callers) = 3
  /\ \A c \in 1..2 :
       callers[c].pc = "returned" /\ callers[c].awaited = 1 /\ ~callers[c].result.found
  /\ callers[3].awaited = 2 /\ callers[3].pc = "await"

\* ------------------------------------------------- properties of the loading toast
\* C28: when an images export is back to idle its loading toast is no longer
\* on screen.
C28_LoadingDismissed ==
  (run.kind = "images" /\ pc = "idle") => ~loadingShown

\* ------------------------------------------------- hitomi-viewer.tsx: the load effect
\* The viewer's galleryId prop and its load state are kept in `result`:
\* galleryId (the current prop), mounted, the state variables isLoading, error,
\* galleryInfo (the gallery id the info belongs to, 0 for null) and serverMap
\* (set or null), and loads, the runs of the effect with their `active` flag.
\* writer is the run that last set the state variables.
GalleryIds == 1..MaxGalleryId

InitLoad ==
  /\ InitOthers
  /\ args \in [galleryId : GalleryIds]
  /\ result = [ called |-> FALSE, galleryId |-> args.galleryId, mounted |-> TRUE,
                isLoading |-> TRUE, error |-> "none", galleryInfo |-> 0,
                serverMap |-> FALSE, loads |-> <<>>, writer |-> 0 ]

\* return () => { active = false; } of the latest run of the effect
cleanedUp(loads) ==
  IF loads = <<>> THEN loads ELSE [loads EXCEPT ![Len(loads)].active = FALSE]

\* The effect runs, on mount or after galleryId changed: the previous run is
\* cleaned up and load() runs up to its await.
runEffect(galleryId) ==
  /\ result.mounted
  /\ Len(result.loads) < MaxLoads
  /\ IF result.loads = <<>> THEN galleryId = result.galleryId
     ELSE galleryId # result.galleryId
  /\ result' = [result EXCEPT
                  !.called = TRUE,
                  !.galleryId = galleryId,
                  !.isLoading = TRUE, !.error = "none",
                  !.serverMap = FALSE, !.galleryInfo = 0,
                  !.loads = Append(cleanedUp(@),
                                   [galleryId |-> galleryId, active |-> TRUE,
                                    pc |-> "await"]),
                  !.writer = Len(result.loads) + 1]
  /\ planVarsUnchanged

loadEffect == \E galleryId \in GalleryIds : runEffect(galleryId)

\* The viewer unmounts: the cleanup of the latest run.
unmount ==
  /\ result.mounted
  /\ result.loads # <<>>
  /\ result' = [result EXCEPT !.mounted = FALSE, !.loads = cleanedUp(@)]
  /\ planVarsUnchanged

\* The guard is missing.
stillActive_unchecked(load) == TRUE

\* if (!active) return;
stillActive(load) == load.active

\* Promise.all has settled for run k: load() from its await to its end.
loadSettles ==
  \E k \in 1..Len(result.loads), info \in BOOLEAN, map \in BOOLEAN :
    /\ result.loads[k].pc = "await"
    /\ IF ~stillActive(result.loads[k])
       THEN result' = [result EXCEPT !.loads[k].pc = "dropped"]
       ELSE IF ~info
       THEN result' = [result EXCEPT !.loads[k].pc = "done", !.writer = k,
                                     !.error = "gallery", !.isLoading = FALSE]
       ELSE IF ~map
       THEN result' = [result EXCEPT !.loads[k].pc = "done", !.writer = k,
                                     !.error = "servers", !.isLoading = FALSE]
       ELSE result' = [result EXCEPT !.loads[k].pc = "done", !.writer = k,
                                     !.galleryInfo = result.loads[k].galleryId,
                                     !.serverMap = TRUE, !.isLoading = FALSE]
    /\ planVarsUnchanged

NextLoad == loadEffect \/ unmount \/ loadSettles

SpecLoad == InitLoad /\ [][NextLoad]_vars

\* The state variables the load writes.
Displayed == <<result.galleryInfo, result.serverMap, result.error, result.isLoading>>

\* Run k of the effect, cleaned up, settles in this step.
StaleSettles(k) ==
  /\ k <= Len(result.loads)
  /\ result.loads[k].pc = "await" /\ ~result.loads[k].active
  /\ result'.loads[k].pc # "await"

MAX_DB_FAILURES == 3

\* args.available: typeof indexedDB !== "undefined"
InitDb ==
  /\ InitOthers
  /\ args \in [available : BOOLEAN]
  /\ result = [ called |-> FALSE, dbPromise |-> 0, dbFailureCount |-> 0,
                attempts |-> <<>>, calls |-> <<>> ]

\* if (dbFailureCount >= MAX_DB_FAILURES) dbPromise = null;
cachedAfterFailure(count, dbPromise) ==
  IF count >= MAX_DB_FAILURES THEN 0 ELSE dbPromise

\* safeResolve(value) on the module state r
safeResolve(r, attempt, value) ==
  IF value = "null"
  THEN [r EXCEPT !.attempts[attempt] = "null",
                 !.dbFailureCount = @ + 1,
                 !.dbPromise = cachedAfterFailure(r.dbFailureCount + 1, @)]
  ELSE [r EXCEPT !.attempts[attempt] = "db", !.dbFailureCount = 0]

\* const db = await openDb(); in each of the three store operations
DbCallers == {"persistLocalFile", "readLocalFile", "removeStoredFile"}

returned(r, by, promise, started) ==
  [r EXCEPT !.called = TRUE,
            !.calls = Append(@, [by |-> by, promise |-> promise, started |-> started])]

\* One call of openDb.  A new attempt either fails inside the executor
\* (indexedDB.open throws: safeResolve(null) runs before dbPromise is assigned)
\* or stays pending.
openDb(by) ==
  /\ Len(result.calls) < MaxDbCalls
  /\ IF ~args.available THEN result' = returned(result, by, 0, FALSE)
     ELSE IF result.dbFailureCount >= MAX_DB_FAILURES
     THEN result' = returned(result, by, 0, FALSE)
     ELSE IF result.dbPromise # 0
     THEN result' = returned(result, by, result.dbPromise, FALSE)
     ELSE \E throws \in BOOLEAN :
            LET attempt  == Len(result.attempts) + 1
                begun    == [result EXCEPT !.attempts = Append(@, "pending")]
                executed == IF throws THEN safeResolve(begun, attempt, "null")
                            ELSE begun
                assigned == [executed EXCEPT !.dbPromise = attempt]
            IN  result' = returned(assigned, by, attempt, TRUE)
  /\ planVarsUnchanged

storeOperation == \E by \in DbCallers : openDb(by)

\* request.onsuccess, or request.onerror, request.onblocked or the timeout
settleOpen ==
  \E attempt \in 1..Len(result.attempts), value \in {"db", "null"} :
    /\ result.attempts[attempt] = "pending"
    /\ result' = safeResolve(result, attempt, value)
    /\ planVarsUnchanged

NextDb == storeOperation \/ settleOpen

SpecDb == InitDb /\ [][NextDb]_vars

\* The step is a call of openDb.
DbCalled == Len(result'.calls) > Len(result.calls)

lastCall == result'.calls[Len(result'.calls)]

\* The latest open attempt has failed.
LastAttemptFailed ==
  result.attempts # <<>> /\ result.attempts[Len(result.attempts)] = "null"

\* C30: while fewer than MAX_DB_FAILURES failures are recorded, the call of
\* openDb that follows a failed open attempt starts a new attempt and returns
\* its promise; openDb returns null at once only when MAX_DB_FAILURES failures
\* are recorded (or IndexedDB does not exist).
C30_RetryAfterFailure ==
  /\ [][(DbCalled /\ args.available /\ LastAttemptFailed
           /\ result.dbFailureCount < MAX_DB_FAILURES) =>
          /\ lastCall.started
          /\ Len(result'.attempts) = Len(result.attempts) + 1
          /\ lastCall.promise = Len(result'.attempts)]_vars
  /\ [][(DbCalled /\ args.available /\ lastCall.promise = 0) =>
          result.dbFailureCount >= MAX_DB_FAILURES]_vars

====
